---- MODULE Spec2Model ----
(***************************************************************************)
(* Network observation and cache subsystem of the Playwright MCP server:   *)
(* the Tab's request/response handlers (tab.ts), the Redis record store    *)
(* (redisClient.ts) and the network query tool (tools/network.ts).         *)
(*                                                                         *)
(* Scheduling.  Node runs the handlers on one thread; a handler gives up   *)
(* control only at an await.  All store commands travel over the single    *)
(* module-level ioredis connection (redisClient.ts:59-67), which sends     *)
(* them in issue order and resolves their promises in reply order.  The    *)
(* variable queue is that connection: a task waiting for the reply of a    *)
(* store command sits in it, the command at its head is the next one the   *)
(* store executes, and the task's continuation up to its next await runs   *)
(* with the reply.  Awaits on the browser (response.allHeaders, body       *)
(* reads) are not in the queue and complete at any time.                   *)
(***************************************************************************)
EXTENDS Integers, Sequences, FiniteSets, TLC

VARIABLES
  redis,            \* the Redis keyspace: key -> [type, val, ex]
  queue,            \* tasks awaiting the reply of a store command, in issue order
  pc,               \* where each handler invocation stands
  key,              \* capture handlers: the requestKey local
  data,             \* response handlers: the record read back by storeResponse
  tracked,          \* response handlers: whether _pendingRequests had the request
  pendingRequests,  \* Tab._pendingRequests, per page: request -> requestKey
  clr,              \* per page: the running/last _clearCollectedArtifacts call
  qry,              \* the getAllRequestsForPage call: locals and result
  tool,             \* the browser_network_requests call: parameters and result
  observed,         \* request notifications handled so far, in order
  sinceClear,       \* per page: no capture notification since the last successful clear
  untouched,        \* per page: no capture notification or capture write since then
  overlap,          \* capture handlers: a clear of the page ran while the handler did
  failures,         \* injected store/browser failures so far
  clears,           \* clears started so far
  queries,          \* getAllRequestsForPage calls started so far
  env,              \* the run's environment: what the browser and the caller may do
  configFile,       \* redis.config.json as it is on disk when the module loads
  redisConfig,      \* the module's redisConfig, NULL before the module has loaded
  redisClient,      \* the ioredis client: its status and the last connectRedis call
  context,          \* the Context: its browser context open, or where close() stands
  memoryTab         \* a Tab of the in-memory variant: its _requests map, in insertion order

vars == <<redis, queue, pc, key, data, tracked, pendingRequests, clr, qry, observed,
          sinceClear, untouched, overlap, failures, clears, queries, tool, env,
          configFile, redisConfig, redisClient, context, memoryTab>>

-----------------------------------------------------------------------------
(* Bounds of the model *)

MaxFailures == 1        \* store/browser failures injected in one run
MaxClears == 2          \* navigate/close calls in a run without failures
MaxFaultyClears == 1    \* navigate/close calls in a run with failures
MaxQueries == 1         \* getAllRequestsForPage calls in one run
MaxEntries == 2         \* entries of a request map handed to the tool's filter
MaxMemoryRequests == 402  \* requests the page of an in-memory Tab makes in one run

-----------------------------------------------------------------------------
(* JavaScript values *)

NULL == <<>>                      \* null / undefined / missing
Some(x) == <<x>>
Unwrap(o) == o[1]
EmptyMap == [x \in {} |-> NULL]   \* an empty Map / object / keyspace

-----------------------------------------------------------------------------
(* The browser side: pages, and the request objects the driver reports *)

PageIds == {"pA", "pB"}

Requests == {"r1", "r2", "r3", "d1"}

KEY_PREFIX == "playwright_mcp_requests:"

defaultTTLSeconds == 604800

\* playwright.Request accessors
RequestInfo(r) ==
  CASE r = "r1" -> [page |-> "pA", url |-> "https://example.com/api",
                    method |-> "POST", resourceType |-> "xhr",
                    headers |-> ("content-type" :> "application/json"),
                    postDataBuffer |-> Some("{\"a\":1}")]
    [] r = "r2" -> [page |-> "pA", url |-> "https://cdn.example.com/a.js",
                    method |-> "GET", resourceType |-> "script",
                    headers |-> ("accept" :> "*/*"),
                    postDataBuffer |-> NULL]
    [] r = "r3" -> [page |-> "pB", url |-> "https://example.com/",
                    method |-> "POST", resourceType |-> "document",
                    headers |-> ("content-type" :> "application/x-www-form-urlencoded"),
                    postDataBuffer |-> Some("a=1")]
    [] r = "d1" -> [page |-> "pA", url |-> "data:text/plain,hi",
                    method |-> "GET", resourceType |-> "image",
                    headers |-> ("accept" :> "*/*"),
                    postDataBuffer |-> NULL]

\* playwright.Response accessors of the response to request r
ResponseInfo(r) ==
  CASE r = "r1" -> [status |-> 200, statusText |-> "OK",
                    headers |-> ("content-type" :> "application/json"),
                    text |-> "{\"a\":1}", size |-> 7, readable |-> TRUE]
    [] r = "r2" -> [status |-> 404, statusText |-> "Not Found",
                    headers |-> ("content-type" :> "text/html"),
                    text |-> "a=1", size |-> 3, readable |-> TRUE]
    [] r = "r3" -> [status |-> 204, statusText |-> "No Content",
                    headers |-> ("server" :> "nginx"),
                    text |-> "", size |-> 0, readable |-> TRUE]
    [] r = "d1" -> [status |-> 200, statusText |-> "OK",
                    headers |-> ("content-type" :> "text/plain"),
                    text |-> "a=1", size |-> 3, readable |-> TRUE]

PageOf(r) == RequestInfo(r).page

RequestsOf(p) == {r \in Requests : PageOf(r) = p}

startsWithData_never(url) == FALSE

\* url.startsWith('data:')
startsWithData(url) == url \in {"data:text/plain,hi"}

\* key.toLowerCase()
toLowerCase(s) == IF s = "Content-Type" THEN "content-type" ELSE s

\* contentType.includes(part)
includes(s, part) ==
  CASE part = "application/json" -> s \in {"application/json"}
    [] part = "text/" -> s \in {"text/html", "text/plain"}
    [] part = "application/javascript" -> s \in {"application/javascript"}
    [] part = "application/xml" -> s \in {"application/xml"}
    [] OTHER -> FALSE

\* contentType.startsWith("text/")
startsWithText(s) == s \in {"text/html", "text/plain"}

\* Object.keys(headers).find(k => k.toLowerCase() === 'content-type'), then the value
contentTypeOf(headers) ==
  LET names == {k \in DOMAIN headers : toLowerCase(k) = "content-type"}
  IN  IF names = {} THEN NULL ELSE Some(headers[CHOOSE k \in names : TRUE])

\* JSON.parse of a body text: the parsed value, or NULL when it throws
ValidJson == {"{\"a\":1}"}
JSONparseText(text) == IF text \in ValidJson THEN Some(<<"json", text>>) ELSE NULL

\* JSON.stringify / JSON.parse of a StoredRequestResponse
JSONstringify(d) == <<"string", d>>
JSONparse(s) == s[2]

-----------------------------------------------------------------------------
(* Redis commands, as the store executes them *)

Exists(db, k) == k \in DOMAIN db

\* SET key value EX seconds
SET(db, k, v, seconds) ==
  (k :> [type |-> "string", val |-> v, ex |-> Some(seconds)]) @@ db

\* GET key: the value, or NULL when the key is missing
GET(db, k) == IF Exists(db, k) THEN Some(db[k].val) ELSE NULL

RPUSH_prepend(db, k, v) ==
  IF Exists(db, k)
    THEN (k :> [db[k] EXCEPT !.val = <<v>> \o @]) @@ db
    ELSE (k :> [type |-> "list", val |-> <<v>>, ex |-> NULL]) @@ db

\* RPUSH key value: appends, creating the list (without expiry) when missing
RPUSH(db, k, v) ==
  IF Exists(db, k)
    THEN (k :> [db[k] EXCEPT !.val = Append(@, v)]) @@ db
    ELSE (k :> [type |-> "list", val |-> <<v>>, ex |-> NULL]) @@ db

\* EXPIRE key seconds: no effect on a missing key
EXPIRE(db, k, seconds) ==
  IF Exists(db, k) THEN (k :> [db[k] EXCEPT !.ex = Some(seconds)]) @@ db ELSE db

\* LRANGE key 0 -1: the whole list, empty when the key is missing
LRANGE(db, k) == IF Exists(db, k) THEN db[k].val ELSE <<>>

\* DEL of a set of keys
DEL(db, ks) == [k \in DOMAIN db \ ks |-> db[k]]

\* The store after `seconds` have passed: every expiry has come closer and the
\* keys whose time is up are gone
elapse(db, seconds) ==
  LET live == {k \in DOMAIN db : db[k].ex = NULL \/ Unwrap(db[k].ex) > seconds}
  IN  [k \in live |->
         IF db[k].ex = NULL THEN db[k]
         ELSE [db[k] EXCEPT !.ex = Some(Unwrap(@) - seconds)]]

-----------------------------------------------------------------------------
(* Keys and records (redisClient.ts) *)

uuidv4_constant(t) == "0"

\* uuidv4(): a token no other call returns.  Each handler invocation makes at
\* most one storeRequest call, so the invocation names the token.
uuidv4(t) == t[1] \o "-" \o t[2]

requestKeyOf(pageId, requestId) == KEY_PREFIX \o pageId \o ":" \o requestId

listKeyOf_shared(pageId) == KEY_PREFIX \o "list:"

listKeyOf(pageId) == KEY_PREFIX \o "list:" \o pageId

\* storeRequest: the request body stored for request r
requestBodyOf(r) ==
  LET req == RequestInfo(r)
      buf == req.postDataBuffer
      contentType == contentTypeOf(req.headers)
  IN  IF buf # NULL
        THEN IF contentType # NULL /\ includes(Unwrap(contentType), "application/json")
               THEN IF JSONparseText(Unwrap(buf)) # NULL
                      THEN Unwrap(JSONparseText(Unwrap(buf)))
                      ELSE <<"str", Unwrap(buf)>>
               ELSE <<"str", Unwrap(buf)>>
        ELSE NULL      \* postData() is null when there is no buffer

\* storeRequest: the StoredRequestResponse built for request r
requestDataOf_answered(r, requestId) ==
  [id |-> requestId,
   request |-> [url |-> RequestInfo(r).url,
                method |-> RequestInfo(r).method,
                headers |-> RequestInfo(r).headers,
                body |-> requestBodyOf(r),
                resourceType |-> RequestInfo(r).resourceType],
   response |-> Some([status |-> 0])]

requestDataOf(r, requestId) ==
  [id |-> requestId,
   request |-> [url |-> RequestInfo(r).url,
                method |-> RequestInfo(r).method,
                headers |-> RequestInfo(r).headers,
                body |-> requestBodyOf(r),
                resourceType |-> RequestInfo(r).resourceType],
   response |-> NULL]

\* response.ok()
responseOk(status) == status >= 200 /\ status <= 299

responseBodyContent_anyStatus(resp) ==
  LET ct == contentTypeOf(resp.headers)
      raw ==
        IF ~responseOk(resp.status) THEN <<"not-ok", resp.status>>
        ELSE IF ct # NULL /\ includes(Unwrap(ct), "application/json")
          THEN IF ~resp.readable THEN <<"error-json-text">>
               ELSE IF JSONparseText(resp.text) # NULL
                 THEN Unwrap(JSONparseText(resp.text))
                 ELSE <<"str", resp.text>>
        ELSE IF ct # NULL /\ (\/ includes(Unwrap(ct), "text/")
                              \/ includes(Unwrap(ct), "application/javascript")
                              \/ includes(Unwrap(ct), "application/xml"))
          THEN IF resp.readable THEN <<"str", resp.text>> ELSE <<"error-text">>
        ELSE IF ~resp.readable THEN <<"error-binary">>
        ELSE IF resp.size > 0 THEN <<"binary", resp.size, ct>>
        ELSE NULL
  IN  IF raw = <<"str", "">> /\ ~(ct # NULL /\ startsWithText(Unwrap(ct)))
        THEN NULL
        ELSE raw

\* storeResponse: the body stored for a response
responseBodyContent(resp) ==
  LET ct == contentTypeOf(resp.headers)
      raw ==
        IF resp.status = 204 \/ resp.status = 205 THEN NULL
        ELSE IF ~responseOk(resp.status) THEN <<"not-ok", resp.status>>
        ELSE IF ct # NULL /\ includes(Unwrap(ct), "application/json")
          THEN IF ~resp.readable THEN <<"error-json-text">>
               ELSE IF JSONparseText(resp.text) # NULL
                 THEN Unwrap(JSONparseText(resp.text))
                 ELSE <<"str", resp.text>>
        ELSE IF ct # NULL /\ (\/ includes(Unwrap(ct), "text/")
                              \/ includes(Unwrap(ct), "application/javascript")
                              \/ includes(Unwrap(ct), "application/xml"))
          THEN IF resp.readable THEN <<"str", resp.text>> ELSE <<"error-text">>
        ELSE IF ~resp.readable THEN <<"error-binary">>
        ELSE IF resp.size > 0 THEN <<"binary", resp.size, ct>>
        ELSE NULL
  IN  IF raw = <<"str", "">> /\ ~(ct # NULL /\ startsWithText(Unwrap(ct)))
        THEN NULL
        ELSE raw

\* storeResponse: the body stored for the response to request r
responseBodyContentOf(r) == responseBodyContent(ResponseInfo(r))

\* storeResponse: data.response = {status, statusText, headers, body}
responseDataOf(r) ==
  [status |-> ResponseInfo(r).status,
   statusText |-> ResponseInfo(r).statusText,
   headers |-> ResponseInfo(r).headers,
   body |-> responseBodyContentOf(r)]

withResponse_rebuilt(d, r) ==
  [id |-> d.id,
   request |-> [d.request EXCEPT !.body = NULL],
   response |-> Some(responseDataOf(r))]

\* storeResponse: the record read back, with its response attached
withResponse(d, r) == [d EXCEPT !.response = Some(responseDataOf(r))]


-----------------------------------------------------------------------------
(* Handler invocations *)

ReqT(r) == <<"request", r>>       \* the page.on('request') handler run for r
RespT(r) == <<"response", r>>     \* the page.on('response') handler run for r
ClearT(p) == <<"clear", p>>       \* _clearCollectedArtifacts on page p
QueryT == <<"query", "q">>        \* the query call

CaptureTasks == {ReqT(r) : r \in Requests} \cup {RespT(r) : r \in Requests}

InFlight(t) == pc[t] \notin {"idle", "ignored", "done", "caught", "warned"}

\* The connection: issue a command behind those in flight; take the reply at the head
Issue(q, t) == Append(q, t)
AtHead(t) == queue # <<>> /\ Head(queue) = t

\* connectRedis() either returns or throws (the connect attempt failed)
connectRedis == IF failures < env.maxFailures THEN {"ok", "throw"} ELSE {"ok"}

\* With enableOfflineQueue: false the client carries a command only when ready
carries(status) == status = "ready"

\* A store command, or a browser read, either succeeds or fails; on a client
\* that is not ready a command is rejected
Outcomes ==
  IF ~carries(redisClient.status) THEN {"fail"}
  ELSE IF failures < env.maxFailures THEN {"ok", "fail"} ELSE {"ok"}

Failed(o) == failures' = IF o = "ok" THEN failures ELSE failures + 1

ClearInFlight(p) == clr[p].pc \in {"lrange", "pipeline", "del"}

\* A page reports requests and responses until it has closed, by itself or
\* with the browser context
PageOpen(p) == p \in env.pages /\ clr[p].pc # "closed" /\ context = "open"

Touch(p) == untouched' = [untouched EXCEPT ![p] = FALSE]

\* storeRequest's three writes for the record of request r under requestKey
storeRequestOn(db, r, requestId) ==
  LET pageId == PageOf(r)
      requestKey == requestKeyOf(pageId, requestId)
  IN  EXPIRE(RPUSH(SET(db, requestKey, JSONstringify(requestDataOf(r, requestId)),
                       defaultTTLSeconds),
                   listKeyOf(pageId), requestKey),
             listKeyOf(pageId), defaultTTLSeconds)

\* The store after the request handlers for rs have run to completion, in order
RECURSIVE storedBy(_)
storedBy(rs) ==
  IF rs = <<>> THEN EmptyMap
  ELSE storeRequestOn(storedBy(SubSeq(rs, 1, Len(rs) - 1)), rs[Len(rs)],
                      uuidv4(ReqT(rs[Len(rs)])))

\* e.stored: requests whose request handler completed before the run starts
InitTab(e) ==
  /\ env = e
  /\ redis = storedBy(e.stored)
  /\ queue = <<>>
  /\ pc = [t \in CaptureTasks |->
             IF \E i \in 1..Len(e.stored) : t = ReqT(e.stored[i])
               THEN "done" ELSE "idle"]
  /\ key = [t \in CaptureTasks |->
              IF \E i \in 1..Len(e.stored) : t = ReqT(e.stored[i])
                THEN requestKeyOf(PageOf(t[2]), uuidv4(t)) ELSE ""]
  /\ data = [r \in Requests |-> NULL]
  /\ tracked = [r \in Requests |-> FALSE]
  /\ pendingRequests =
       [p \in PageIds |->
          [r \in {x \in RequestsOf(p) : \E i \in 1..Len(e.stored) : x = e.stored[i]}
             |-> requestKeyOf(p, uuidv4(ReqT(r)))]]
  /\ clr = [p \in PageIds |-> [pc |-> "idle", kind |-> "navigate", keys |-> <<>>,
                               errs |-> {}, outcome |-> "none", again |-> FALSE]]
  /\ qry = [pc |-> "idle", page |-> "pA", keys |-> <<>>, errs |-> {},
            status |-> "none", result |-> <<>>]
  /\ tool = [pc |-> "idle", page |-> "pA", types |-> {}, target |-> NULL,
             status |-> "none", result |-> <<>>, requestOnly |-> {}, adHoc |-> {}]
  /\ observed = e.stored
  /\ sinceClear = [p \in PageIds |-> FALSE]
  /\ untouched = [p \in PageIds |-> FALSE]
  /\ overlap = [t \in CaptureTasks |-> FALSE]
  /\ failures = 0
  /\ clears = 0
  /\ queries = 0
  /\ memoryTab = [requests |-> <<>>, seen |-> 0, responded |-> {},
                  last |-> [kind |-> "none", request |-> 0]]

\* The configuration file: missing, not JSON, the JSON text null, or a JSON
\* object with some of the fields
ConfigFields ==
  [host |-> "redis.internal", port |-> 6380, password |-> "s3cret",
   defaultTTLSeconds |-> 3600]

ConfigFiles ==
  {[kind |-> k, fields |-> <<>>] : k \in {"missing", "invalid", "null"}} \cup
  {[kind |-> "object", fields |-> [f \in fs |-> ConfigFields[f]]] :
     fs \in SUBSET DOMAIN ConfigFields}

defaultConfig ==
  [host |-> "127.0.0.1", port |-> 6379, password |-> NULL,
   defaultTTLSeconds |-> defaultTTLSeconds]

loadRedisConfig_asRead(file) ==
  IF file.kind = "object" THEN file.fields ELSE defaultConfig

\* loadRedisConfig(): the file's fields over the defaults; the defaults when the
\* file is missing or reading it throws (JSON.parse, a property of null)
loadRedisConfig(file) ==
  IF file.kind = "missing" THEN defaultConfig
  ELSE IF file.kind \in {"invalid", "null"} THEN defaultConfig
  ELSE [f \in DOMAIN defaultConfig |->
          IF f \in DOMAIN file.fields THEN file.fields[f] ELSE defaultConfig[f]]

\* The state after construction of a Tab, the module loaded and connected
InitWith(e) ==
  /\ InitTab(e)
  /\ context = "open"
  /\ configFile = [kind |-> "missing", fields |-> <<>>]
  /\ redisConfig = Some(loadRedisConfig(configFile))
  /\ redisClient = [status |-> "ready", op |-> "none", seen |-> "none",
                    attempt |-> FALSE, returned |-> "none", command |-> "none"]

\* Map.set / Map.delete / Map.clear on Tab._pendingRequests
pendingSet(m, r, k) == (r :> k) @@ m
pendingDelete(m, r) == [x \in DOMAIN m \ {r} |-> m[x]]
pendingGet(m, r) == IF r \in DOMAIN m THEN Some(m[r]) ELSE NULL

Caught_rethrow(t) ==
  /\ pc' = [pc EXCEPT ![t] = "threw"]
  /\ UNCHANGED pendingRequests

\* The catch block of a capture handler, and what follows it
Caught(t) ==
  /\ pc' = [pc EXCEPT ![t] = "caught"]
  /\ pendingRequests' =
       IF t[1] = "response" /\ tracked[t[2]]
         THEN [pendingRequests EXCEPT ![PageOf(t[2])] = pendingDelete(@, t[2])]
         ELSE pendingRequests

\* storeRequest up to its first await of the store: connectRedis, the key, SET issued
storeRequest_call(t, o) ==
  /\ Failed(o)
  /\ IF o = "ok"
       THEN /\ key' = [key EXCEPT ![t] = requestKeyOf(PageOf(t[2]), uuidv4(t))]
            /\ pc' = [pc EXCEPT ![t] = "set"]
            /\ queue' = Issue(queue, t)
            /\ UNCHANGED pendingRequests
       ELSE /\ Caught(t)
            /\ UNCHANGED <<key, queue>>

\* page.on('request', ...)
RequestEvent(r) ==
  /\ r \in env.live
  /\ pc[ReqT(r)] = "idle" /\ pc[RespT(r)] = "idle"
  /\ PageOpen(PageOf(r))
  /\ IF startsWithData(RequestInfo(r).url)
       THEN /\ pc' = [pc EXCEPT ![ReqT(r)] = "ignored"]
            /\ UNCHANGED <<key, queue, pendingRequests, failures, observed,
                           sinceClear, untouched>>
       ELSE /\ \E o \in connectRedis : storeRequest_call(ReqT(r), o)
            /\ observed' = Append(observed, r)
            /\ sinceClear' = [sinceClear EXCEPT ![PageOf(r)] = FALSE]
            /\ Touch(PageOf(r))
  /\ overlap' = [overlap EXCEPT ![ReqT(r)] = ClearInFlight(PageOf(r))]
  /\ UNCHANGED <<env, memoryTab, context, configFile, redisConfig, redisClient, tool, redis, data, tracked, clr, qry, clears, queries>>

\* storeRequest: await redisClient.set(requestKey, JSON.stringify(data), 'EX', ttl)
storeRequest_set(t) ==
  /\ AtHead(t) /\ pc[t] = "set"
  /\ \E o \in Outcomes :
       /\ Failed(o)
       /\ IF o = "ok"
            THEN /\ redis' = SET(redis, key[t],
                                 JSONstringify(requestDataOf(t[2], uuidv4(t))),
                                 defaultTTLSeconds)
                 /\ pc' = [pc EXCEPT ![t] = "rpush"]
                 /\ queue' = Issue(Tail(queue), t)
                 /\ Touch(PageOf(t[2]))
                 /\ UNCHANGED pendingRequests
            ELSE /\ Caught(t)
                 /\ queue' = Tail(queue)
                 /\ UNCHANGED <<redis, untouched>>
  /\ UNCHANGED <<env, memoryTab, context, configFile, redisConfig, redisClient, tool, overlap, key, data, tracked, clr, qry, observed, sinceClear, clears, queries>>

\* storeRequest: await redisClient.rpush(list key, requestKey)
storeRequest_rpush(t) ==
  /\ AtHead(t) /\ pc[t] = "rpush"
  /\ \E o \in Outcomes :
       /\ Failed(o)
       /\ IF o = "ok"
            THEN /\ redis' = RPUSH(redis, listKeyOf(PageOf(t[2])), key[t])
                 /\ pc' = [pc EXCEPT ![t] = "expire"]
                 /\ queue' = Issue(Tail(queue), t)
                 /\ Touch(PageOf(t[2]))
                 /\ UNCHANGED pendingRequests
            ELSE /\ Caught(t)
                 /\ queue' = Tail(queue)
                 /\ UNCHANGED <<redis, untouched>>
  /\ UNCHANGED <<env, memoryTab, context, configFile, redisConfig, redisClient, tool, overlap, key, data, tracked, clr, qry, observed, sinceClear, clears, queries>>

\* storeResponse up to its first await of the store: connectRedis, GET issued
storeResponse_call(r, o, q) ==
  IF o = "ok"
    THEN /\ pc' = [pc EXCEPT ![RespT(r)] = "get"]
         /\ queue' = Issue(q, RespT(r))
         /\ UNCHANGED pendingRequests
    ELSE /\ Caught(RespT(r))
         /\ queue' = q

\* storeRequest: await redisClient.expire(list key, ttl); return requestKey.
\* The request handler then records the key in _pendingRequests; the ad-hoc
\* branch of the response handler goes on to storeResponse(newRequestKey, response).
storeRequest_expire(t) ==
  /\ AtHead(t) /\ pc[t] = "expire"
  /\ \E o \in Outcomes :
       IF o = "ok"
         THEN /\ redis' = EXPIRE(redis, listKeyOf(PageOf(t[2])), defaultTTLSeconds)
              /\ Touch(PageOf(t[2]))
              /\ IF t[1] = "request"
                   THEN /\ pendingRequests' =
                             [pendingRequests EXCEPT ![PageOf(t[2])] =
                                pendingSet(@, t[2], key[t])]
                        /\ pc' = [pc EXCEPT ![t] = "done"]
                        /\ queue' = Tail(queue)
                        /\ UNCHANGED failures
                   ELSE \E c \in connectRedis :
                          /\ Failed(c)
                          /\ storeResponse_call(t[2], c, Tail(queue))
         ELSE /\ Failed(o)
              /\ Caught(t)
              /\ queue' = Tail(queue)
              /\ UNCHANGED <<redis, untouched>>
  /\ UNCHANGED <<env, memoryTab, context, configFile, redisConfig, redisClient, tool, overlap, key, data, tracked, clr, qry, observed, sinceClear, clears, queries>>

\* page.on('response', ...)
ResponseEvent(r) ==
  /\ r \in env.live
  /\ pc[RespT(r)] = "idle"
  /\ PageOpen(PageOf(r))
  /\ IF startsWithData(RequestInfo(r).url)
       THEN /\ pc' = [pc EXCEPT ![RespT(r)] = "ignored"]
            /\ UNCHANGED <<key, queue, tracked, pendingRequests, failures,
                           sinceClear, untouched>>
       ELSE LET requestKey == pendingGet(pendingRequests[PageOf(r)], r)
            IN  /\ sinceClear' = [sinceClear EXCEPT ![PageOf(r)] = FALSE]
                /\ Touch(PageOf(r))
                /\ IF requestKey # NULL
                     THEN /\ tracked' = [tracked EXCEPT ![r] = TRUE]
                          /\ key' = [key EXCEPT ![RespT(r)] = Unwrap(requestKey)]
                          /\ \E c \in connectRedis :
                               /\ Failed(c)
                               /\ IF c = "ok"
                                    THEN /\ pc' = [pc EXCEPT ![RespT(r)] = "get"]
                                         /\ queue' = Issue(queue, RespT(r))
                                         /\ UNCHANGED pendingRequests
                                    ELSE /\ pc' = [pc EXCEPT ![RespT(r)] = "caught"]
                                         /\ pendingRequests' =
                                              [pendingRequests EXCEPT ![PageOf(r)] =
                                                 pendingDelete(@, r)]
                                         /\ UNCHANGED queue
                     ELSE /\ UNCHANGED tracked
                          /\ \E c \in connectRedis : storeRequest_call(RespT(r), c)
  /\ overlap' = [overlap EXCEPT ![RespT(r)] = ClearInFlight(PageOf(r))]
  /\ UNCHANGED <<env, memoryTab, context, configFile, redisConfig, redisClient, tool, redis, data, clr, qry, observed, clears, queries>>

storeResponse_get_unchecked(r) ==
  /\ AtHead(RespT(r)) /\ pc[RespT(r)] = "get"
  /\ queue' = Tail(queue)
  /\ \E o \in Outcomes :
       /\ Failed(o)
       /\ IF o = "ok" /\ GET(redis, key[RespT(r)]) # NULL
            THEN /\ data' = [data EXCEPT ![r] =
                               Some(JSONparse(Unwrap(GET(redis, key[RespT(r)]))))]
                 /\ pc' = [pc EXCEPT ![RespT(r)] = "fetch"]
                 /\ UNCHANGED pendingRequests
            ELSE /\ Caught(RespT(r))
                 /\ UNCHANGED data
  /\ UNCHANGED <<env, memoryTab, context, configFile, redisConfig, redisClient, tool, overlap, redis, key, tracked, clr, qry, observed, sinceClear, untouched,
                 clears, queries>>

\* storeResponse: await redisClient.get(requestKey); missing record: warn and return
storeResponse_get(r) ==
  /\ AtHead(RespT(r)) /\ pc[RespT(r)] = "get"
  /\ queue' = Tail(queue)
  /\ \E o \in Outcomes :
       /\ Failed(o)
       /\ IF o = "ok"
            THEN LET existingDataString == GET(redis, key[RespT(r)])
                 IN  IF existingDataString = NULL
                       THEN /\ pc' = [pc EXCEPT ![RespT(r)] = "warned"]
                            /\ pendingRequests' =
                                 IF tracked[r]
                                   THEN [pendingRequests EXCEPT ![PageOf(r)] =
                                           pendingDelete(@, r)]
                                   ELSE pendingRequests
                            /\ UNCHANGED data
                       ELSE /\ data' = [data EXCEPT ![r] =
                                          Some(JSONparse(Unwrap(existingDataString)))]
                            /\ pc' = [pc EXCEPT ![RespT(r)] = "fetch"]
                            /\ UNCHANGED pendingRequests
            ELSE /\ Caught(RespT(r))
                 /\ UNCHANGED data
  /\ UNCHANGED <<env, memoryTab, context, configFile, redisConfig, redisClient, tool, overlap, redis, key, tracked, clr, qry, observed, sinceClear, untouched,
                 clears, queries>>

\* storeResponse: await response.allHeaders() and the body read, then SET issued
storeResponse_body(r) ==
  /\ pc[RespT(r)] = "fetch"
  /\ \E o \in Outcomes :
       /\ Failed(o)
       /\ IF o = "ok"
            THEN /\ data' = [data EXCEPT ![r] = Some(withResponse(Unwrap(@), r))]
                 /\ pc' = [pc EXCEPT ![RespT(r)] = "set2"]
                 /\ queue' = Issue(queue, RespT(r))
                 /\ UNCHANGED pendingRequests
            ELSE /\ Caught(RespT(r))
                 /\ UNCHANGED <<data, queue>>
  /\ UNCHANGED <<env, memoryTab, context, configFile, redisConfig, redisClient, tool, overlap, redis, key, tracked, clr, qry, observed, sinceClear, untouched,
                 clears, queries>>

\* storeResponse: await redisClient.set(requestKey, JSON.stringify(data), 'EX', ttl);
\* the tracked branch then deletes the request from _pendingRequests
storeResponse_set(r) ==
  /\ AtHead(RespT(r)) /\ pc[RespT(r)] = "set2"
  /\ queue' = Tail(queue)
  /\ \E o \in Outcomes :
       /\ Failed(o)
       /\ IF o = "ok"
            THEN /\ redis' = SET(redis, key[RespT(r)], JSONstringify(Unwrap(data[r])),
                                 defaultTTLSeconds)
                 /\ Touch(PageOf(r))
                 /\ pc' = [pc EXCEPT ![RespT(r)] = "done"]
                 /\ pendingRequests' =
                      IF tracked[r]
                        THEN [pendingRequests EXCEPT ![PageOf(r)] = pendingDelete(@, r)]
                        ELSE pendingRequests
            ELSE /\ Caught(RespT(r))
                 /\ UNCHANGED <<redis, untouched>>
  /\ UNCHANGED <<env, memoryTab, context, configFile, redisConfig, redisClient, tool, overlap, key, data, tracked, clr, qry, observed, sinceClear, clears, queries>>


-----------------------------------------------------------------------------
(* Session clear: Tab._clearCollectedArtifacts, called by navigate and _onClose *)

\* What follows _clearCollectedArtifacts: page.goto for navigate, _onPageClose for close
AfterClear(kind) == IF kind = "navigate" THEN "goto" ELSE "closed"

\* The end of _clearCollectedArtifacts: catch (if thrown), then _pendingRequests.clear()
ClearEnds(p, kind, outcome, again) ==
  /\ clr' = [clr EXCEPT ![p] = [pc |-> AfterClear(kind), kind |-> kind,
                                keys |-> <<>>, errs |-> {}, outcome |-> outcome,
                                again |-> again]]
  /\ pendingRequests' = [pendingRequests EXCEPT ![p] = EmptyMap]
  /\ sinceClear' = [sinceClear EXCEPT ![p] = (outcome = "ok")]
  /\ untouched' = [untouched EXCEPT ![p] = (outcome = "ok")]

\* navigate(url) / _onClose(): clearRequestsForPage up to its first await of the store
ClearCall(p, kind) ==
  /\ clr[p].pc = "idle"
  /\ p \in env.pages
  /\ clears < env.maxClears
  /\ clears' = clears + 1
  /\ \E c \in connectRedis :
       /\ Failed(c)
       /\ IF c = "ok"
            THEN /\ clr' = [clr EXCEPT ![p] = [pc |-> "lrange", kind |-> kind,
                                               keys |-> <<>>, errs |-> {},
                                               outcome |-> "none",
                                               again |-> untouched[p]]]
                 /\ queue' = Issue(queue, ClearT(p))
                 /\ UNCHANGED <<pendingRequests, sinceClear, untouched>>
            ELSE /\ ClearEnds(p, kind, "caught", untouched[p])
                 /\ UNCHANGED queue
  /\ overlap' = [t \in CaptureTasks |->
                   overlap[t] \/ (PageOf(t[2]) = p /\ InFlight(t))]
  /\ UNCHANGED <<env, memoryTab, context, configFile, redisConfig, redisClient, tool, redis, pc, key, data, tracked, qry, observed, queries>>

\* clearRequestsForPage: await redisClient.lrange(list key, 0, -1)
clearRequestsForPage_lrange(p) ==
  /\ AtHead(ClearT(p)) /\ clr[p].pc = "lrange"
  /\ \E o \in Outcomes :
       /\ Failed(o)
       /\ IF o = "ok"
            THEN LET requestKeys == LRANGE(redis, listKeyOf(p))
                 IN  /\ clr' = [clr EXCEPT ![p].keys = requestKeys,
                                           ![p].pc = IF Len(requestKeys) > 0
                                                       THEN "pipeline" ELSE "del"]
                     /\ queue' = Issue(Tail(queue), ClearT(p))
                     /\ UNCHANGED <<pendingRequests, sinceClear, untouched>>
            ELSE /\ ClearEnds(p, clr[p].kind, "caught", clr[p].again)
                 /\ queue' = Tail(queue)
  /\ UNCHANGED <<env, memoryTab, context, configFile, redisConfig, redisClient, tool, overlap, redis, pc, key, data, tracked, qry, observed, clears, queries>>

Range(q) == {q[i] : i \in 1..Len(q)}

\* The sets of commands of a pipeline that may come back with an error
PipelineErrors(ks) ==
  IF failures < env.maxFailures THEN SUBSET Range(ks) ELSE {{}}

pipelineDel_abort(db, ks, errs) ==
  LET first == IF \E i \in 1..Len(ks) : ks[i] \in errs
                 THEN CHOOSE i \in 1..Len(ks) :
                        ks[i] \in errs /\ \A j \in 1..(i-1) : ks[j] \notin errs
                 ELSE Len(ks) + 1
  IN  DEL(db, {ks[i] : i \in 1..(first - 1)})

\* pipeline.del(key) for every key, then exec(): each DEL runs; those in errs fail
pipelineDel(db, ks, errs) == DEL(db, Range(ks) \ errs)

\* clearRequestsForPage: await pipeline.exec(); its per-command errors are not read
clearRequestsForPage_pipeline(p) ==
  /\ AtHead(ClearT(p)) /\ clr[p].pc = "pipeline"
  /\ \E errs \in PipelineErrors(clr[p].keys) :
       /\ failures' = IF errs = {} THEN failures ELSE failures + 1
       /\ redis' = pipelineDel(redis, clr[p].keys, errs)
       /\ clr' = [clr EXCEPT ![p].errs = errs, ![p].pc = "del"]
       /\ queue' = Issue(Tail(queue), ClearT(p))
  /\ UNCHANGED <<env, memoryTab, context, configFile, redisConfig, redisClient, tool, overlap, pc, key, data, tracked, pendingRequests, qry, observed,
                 sinceClear, untouched, clears, queries>>

delIndex_lpop(db, pageId) ==
  IF Len(LRANGE(db, listKeyOf(pageId))) > 1
    THEN (listKeyOf(pageId) :> [db[listKeyOf(pageId)] EXCEPT !.val = Tail(@)]) @@ db
    ELSE DEL(db, {listKeyOf(pageId)})

\* redisClient.del(list key): the whole index goes
delIndex(db, pageId) == DEL(db, {listKeyOf(pageId)})

\* clearRequestsForPage: await redisClient.del(list key)
clearRequestsForPage_del(p) ==
  /\ AtHead(ClearT(p)) /\ clr[p].pc = "del"
  /\ queue' = Tail(queue)
  /\ \E o \in Outcomes :
       /\ Failed(o)
       /\ IF o = "ok"
            THEN /\ redis' = delIndex(redis, p)
                 /\ ClearEnds(p, clr[p].kind, "ok", clr[p].again)
            ELSE /\ ClearEnds(p, clr[p].kind, "caught", clr[p].again)
                 /\ UNCHANGED redis
  /\ UNCHANGED <<env, memoryTab, context, configFile, redisConfig, redisClient, tool, overlap, pc, key, data, tracked, qry, observed, clears, queries>>

\* navigate: await this.page.goto(url, ...), after which the page can navigate again
PageGoto(p) ==
  /\ clr[p].pc = "goto"
  /\ clr' = [clr EXCEPT ![p].pc = "idle", ![p].outcome = "none",
                        ![p].again = FALSE]
  /\ UNCHANGED <<env, memoryTab, context, configFile, redisConfig, redisClient, tool, overlap, redis, queue, pc, key, data, tracked, pendingRequests, qry, observed,
                 sinceClear, untouched, failures, clears, queries>>

-----------------------------------------------------------------------------
(* Reading back: getAllRequestsForPage (redisClient.ts) and the network tool
   browser_network_requests (tools/network.ts) *)

allRequestsOf_strict(db, requestKeys, errs) ==
  IF \A i \in 1..Len(requestKeys) :
       requestKeys[i] \notin errs /\ GET(db, requestKeys[i]) # NULL
    THEN [i \in 1..Len(requestKeys) |-> JSONparse(Unwrap(GET(db, requestKeys[i])))]
    ELSE <<>>

\* getAllRequestsForPage: the records pushed from the pipeline's results: a
\* command with an error, or with no data, contributes nothing
allRequestsOf(db, requestKeys, errs) ==
  LET Got(k) == k \notin errs /\ GET(db, k) # NULL
      Parsed(k) == JSONparse(Unwrap(GET(db, k)))
      present == SelectSeq(requestKeys, Got)
  IN  [i \in 1..Len(present) |-> Parsed(present[i])]

\* getAllRequestsForPage(pageId) up to its first await of the store
getAllRequestsForPage_call(p) ==
  /\ qry.pc = "idle"
  /\ p \in env.pages
  /\ queries < env.maxQueries
  /\ queries' = queries + 1
  /\ \E c \in connectRedis :
       /\ Failed(c)
       /\ IF c = "ok"
            THEN /\ qry' = [qry EXCEPT !.pc = "lrange", !.page = p]
                 /\ queue' = Issue(queue, QueryT)
            ELSE /\ qry' = [qry EXCEPT !.pc = "done", !.page = p, !.status = "error"]
                 /\ UNCHANGED queue
  /\ UNCHANGED <<env, memoryTab, context, configFile, redisConfig, redisClient, overlap, redis, pc, key, data, tracked, pendingRequests, clr,
                 tool, observed, sinceClear, untouched, clears>>

getAllRequestsForPage_lrange_refresh ==
  /\ AtHead(QueryT) /\ qry.pc = "lrange"
  /\ \E o \in Outcomes :
       /\ Failed(o)
       /\ IF o = "ok"
            THEN LET requestKeys == LRANGE(redis, listKeyOf(qry.page))
                 IN  IF Len(requestKeys) = 0
                       THEN /\ qry' = [qry EXCEPT !.pc = "done", !.status = "ok",
                                                  !.result = <<>>]
                            /\ queue' = Tail(queue)
                       ELSE /\ qry' = [qry EXCEPT !.pc = "pipeline",
                                                  !.keys = requestKeys]
                            /\ queue' = Issue(Tail(queue), QueryT)
            ELSE /\ qry' = [qry EXCEPT !.pc = "done", !.status = "error"]
                 /\ queue' = Tail(queue)
  /\ redis' = EXPIRE(redis, listKeyOf(qry.page), defaultTTLSeconds)
  /\ UNCHANGED <<env, memoryTab, context, configFile, redisConfig, redisClient, overlap, pc, key, data, tracked, pendingRequests, clr,
                 tool, observed, sinceClear, untouched, clears, queries>>

\* getAllRequestsForPage: await redisClient.lrange(list key, 0, -1)
getAllRequestsForPage_lrange ==
  /\ AtHead(QueryT) /\ qry.pc = "lrange"
  /\ \E o \in Outcomes :
       /\ Failed(o)
       /\ IF o = "ok"
            THEN LET requestKeys == LRANGE(redis, listKeyOf(qry.page))
                 IN  IF Len(requestKeys) = 0
                       THEN /\ qry' = [qry EXCEPT !.pc = "done", !.status = "ok",
                                                  !.result = <<>>]
                            /\ queue' = Tail(queue)
                       ELSE /\ qry' = [qry EXCEPT !.pc = "pipeline",
                                                  !.keys = requestKeys]
                            /\ queue' = Issue(Tail(queue), QueryT)
            ELSE /\ qry' = [qry EXCEPT !.pc = "done", !.status = "error"]
                 /\ queue' = Tail(queue)
  /\ UNCHANGED <<env, memoryTab, context, configFile, redisConfig, redisClient, overlap, redis, pc, key, data, tracked, pendingRequests, clr,
                 tool, observed, sinceClear, untouched, clears, queries>>

\* getAllRequestsForPage: await pipeline.exec(), then the results loop, which
\* skips a result whose err is set and returns the rest
getAllRequestsForPage_pipeline ==
  /\ AtHead(QueryT) /\ qry.pc = "pipeline"
  /\ queue' = Tail(queue)
  /\ \E errs \in PipelineErrors(qry.keys) :
       /\ failures' = IF errs = {} THEN failures ELSE failures + 1
       /\ qry' = [qry EXCEPT !.pc = "done", !.status = "ok", !.errs = errs,
                             !.result = allRequestsOf(redis, qry.keys, errs)]
  /\ UNCHANGED <<env, memoryTab, context, configFile, redisConfig, redisClient, overlap, redis, pc, key, data, tracked, pendingRequests, clr,
                 tool, observed, sinceClear, untouched, clears, queries>>

\* new URL(s).hostname, or NULL when the constructor throws
URLhostname(s) ==
  CASE s = "https://example.com/api" -> Some("example.com")
    [] s = "https://example.com/" -> Some("example.com")
    [] s = "https://cdn.example.com/a.js" -> Some("cdn.example.com")
    [] s = "data:text/plain,hi" -> Some("")
    [] OTHER -> NULL

\* /^[a-zA-Z0-9.-]+$/.test(s) && s.includes('.')
hostnameLike(s) == s \in {"example.com", "cdn.example.com"}

extractDomain(url) ==
  IF URLhostname(url) # NULL THEN Unwrap(URLhostname(url))
  ELSE IF hostnameLike(url) THEN url
  ELSE ""

urlMatchesHostname(requestUrl, targetHostname) ==
  LET requestHostname == extractDomain(requestUrl)
  IN  requestHostname # "" /\ targetHostname # "" /\ requestHostname = targetHostname

\* String.prototype.trim
trim(s) ==
  CASE s = " " -> ""
    [] s = " example.com " -> "example.com"
    [] OTHER -> s

\* if (params.target_domain): undefined and the empty string are falsy
truthy(target_domain) == target_domain # NULL /\ Unwrap(target_domain) # ""

\* The tool's loop over requestsMap.entries(): resource_types (mandatory), then
\* target_domain (optional, applied when truthy)
filterRecords(records, resource_types, target_domain) ==
  LET effectiveTargetHostname ==
        IF truthy(target_domain) /\ trim(Unwrap(target_domain)) # ""
          THEN extractDomain(trim(Unwrap(target_domain)))
          ELSE ""
      Keep(rec) ==
        /\ rec.request.resourceType \in resource_types
        /\ truthy(target_domain) =>
             /\ effectiveTargetHostname # ""
             /\ urlMatchesHostname(rec.request.url, effectiveTargetHostname)
  IN  SelectSeq(records, Keep)

\* tab.requests on the Tab of page p: the Tab that captures into the store
\* defines no such method (its declaration is commented out), so the member
\* is undefined
tabRequests(p) == NULL

\* browser_network_requests' handle: const requestsMap = tab.requests() throws
\* a TypeError on an undefined member and the call fails; otherwise the entries
\* of the map are filtered and returned
handle(p, resource_types, target_domain) ==
  /\ tool.pc = "idle"
  /\ PageOpen(p)
  /\ tool' = [pc |-> "done", page |-> p, types |-> resource_types,
              target |-> target_domain,
              status |-> IF tabRequests(p) = NULL THEN "error" ELSE "ok",
              result |-> IF tabRequests(p) = NULL THEN <<>>
                         ELSE filterRecords(Unwrap(tabRequests(p)), resource_types,
                                            target_domain),
              requestOnly |-> {r \in RequestsOf(p) :
                                 pc[ReqT(r)] = "done" /\ pc[RespT(r)] = "idle"},
              adHoc |-> {r \in RequestsOf(p) :
                           pc[RespT(r)] = "done" /\ ~tracked[r]}]
  /\ UNCHANGED <<env, memoryTab, context, configFile, redisConfig, redisClient, overlap, redis, queue, pc, key, data, tracked, pendingRequests,
                 clr, qry, observed, sinceClear, untouched, failures, clears, queries>>

\* Responses the browser can hand to storeResponse
Responses ==
  {[status |-> st, statusText |-> "", headers |-> h, text |-> b[1],
    size |-> b[2], readable |-> rd] :
     st \in {200, 201, 204, 205, 301, 404, 500},
     h \in {"server" :> "nginx"} \cup
           {"content-type" :> ct :
              ct \in {"application/json", "text/html", "text/plain",
                      "application/javascript", "application/xml", "image/png"}},
     b \in {<<"", 0>>, <<"{\"a\":1}", 7>>, <<"a=1", 3>>},
     rd \in BOOLEAN}

\* storeResponse from response.allHeaders() to data.response = {...}, for a
\* response resp to request r whose record has been read
storeResponse_content(r, resp) ==
  /\ r \in env.live
  /\ data[r] = NULL
  /\ data' = [data EXCEPT ![r] =
                Some([requestDataOf(r, uuidv4(ReqT(r))) EXCEPT !.response =
                        Some([status |-> resp.status,
                              statusText |-> resp.statusText,
                              headers |-> resp.headers,
                              body |-> responseBodyContent(resp)])])]
  /\ UNCHANGED <<env, memoryTab, context, configFile, redisConfig, redisClient, overlap, redis, queue, pc, key, tracked, pendingRequests, clr,
                 qry, tool, observed, sinceClear, untouched, failures, clears,
                 queries>>

\* Module load: const redisConfig = loadRedisConfig(); new Redis({...,
\* lazyConnect: false}) starts to connect at once
moduleLoad ==
  /\ redisConfig = NULL
  /\ redisConfig' = Some(loadRedisConfig(configFile))
  /\ redisClient' = [redisClient EXCEPT !.status = "connecting"]
  /\ UNCHANGED <<env, memoryTab, context, configFile, overlap, redis, queue, pc, key, data, tracked,
                 pendingRequests, clr, qry, tool, observed, sinceClear, untouched,
                 failures, clears, queries>>

\* The status changes ioredis makes by itself: the socket connects, passes the
\* ready check, is lost, is retried or given up
clientStatus ==
  /\ redisConfig # NULL
  /\ \E s \in CASE redisClient.status = "connecting" -> {"connect", "close"}
               [] redisClient.status = "connect" -> {"ready", "close"}
               [] redisClient.status = "ready" -> {"close"}
               [] redisClient.status = "close" -> {"reconnecting", "end"}
               [] redisClient.status = "reconnecting" -> {"connecting"}
               [] OTHER -> {} :
       redisClient' = [redisClient EXCEPT !.status = s]
  /\ UNCHANGED <<env, memoryTab, context, configFile, redisConfig, overlap, redis, queue, pc, key, data,
                 tracked, pendingRequests, clr, qry, tool, observed, sinceClear,
                 untouched, failures, clears, queries>>

\* The store commands each operation issues first, after await connectRedis()
FirstCommand ==
  [storeRequest |-> "set", storeResponse |-> "get",
   getAllRequestsForPage |-> "lrange", clearRequestsForPage |-> "lrange"]

\* connectRedis: whether the status read makes it call redisClient.connect()
connectAttempted(status) ==
  \/ status = "end" \/ status = "close"
  \/ status # "connecting" /\ status # "connect" /\ status # "ready"

\* A store operation from its call to its first command: await connectRedis(),
\* which awaits connect() when it calls it (resolved at ready, or rejected and
\* rethrown), then the command
connectRedis_then(op) ==
  /\ redisConfig # NULL
  /\ LET seen == redisClient.status
     IN  \E o \in IF connectAttempted(seen) THEN {"ok", "throw"} ELSE {"ok"} :
           LET after == IF ~connectAttempted(seen) THEN seen
                        ELSE IF o = "ok" THEN "ready" ELSE "close"
           IN  redisClient' =
                 [status |-> after, op |-> op, seen |-> seen,
                  attempt |-> connectAttempted(seen), returned |-> o,
                  command |-> IF o = "throw" THEN "none"
                              ELSE IF carries(after) THEN FirstCommand[op]
                              ELSE "rejected"]
  /\ UNCHANGED <<env, memoryTab, context, configFile, redisConfig, overlap, redis, queue, pc, key, data,
                 tracked, pendingRequests, clr, qry, tool, observed, sinceClear,
                 untouched, failures, clears, queries>>

initializeRedisConnection_rethrow(seen, o) ==
  IF seen = "ready" THEN "ok" ELSE o

\* initializeRedisConnection: how the call completes when it reads status
\* `seen` and the connect() it awaits ends as o.  Both branches that call
\* connect() catch its rejection and log it (the throw is commented out); the
\* ready branch only logs
initializeRedisConnection(seen, o) ==
  LET caught == "ok"     \* catch (error) { console.error(...) }
  IN  IF seen # "ready" /\ seen # "connecting"
        THEN (IF o = "throw" THEN caught ELSE "ok")
        ELSE IF seen = "ready" THEN "ok"
        ELSE (IF o = "throw" THEN caught ELSE "ok")

\* Context._innerCreateBrowserContext up to the browser launch: await
\* initializeRedisConnection() in a try block whose catch logs; then the
\* browser context is created
Context_innerCreateBrowserContext ==
  /\ redisConfig # NULL
  /\ context = "none"
  /\ LET seen == redisClient.status
         attempt == seen # "ready"
     IN  \E o \in IF attempt THEN {"ok", "throw"} ELSE {"ok"} :
           redisClient' =
             [status |-> IF ~attempt THEN seen
                         ELSE IF o = "ok" THEN "ready"
                         ELSE IF seen \in {"connecting", "connect"} THEN seen
                         ELSE "close",
              op |-> "initializeRedisConnection", seen |-> seen,
              attempt |-> attempt,
              returned |-> initializeRedisConnection(seen, o),
              command |-> "none"]
  /\ context' = "creating"
  /\ UNCHANGED <<env, memoryTab, configFile, redisConfig, overlap, redis, queue, pc, key, data,
                 tracked, pendingRequests, clr, qry, tool, observed, sinceClear,
                 untouched, failures, clears, queries>>

\* disconnectRedis' quit command on the connection
QuitT == <<"quit", "context">>

\* The orders in which the pages of a browser context emit 'close'
CloseOrders(pages) ==
  {ps \in [1..Cardinality(pages) -> pages] : \A p \in pages : \E i \in DOMAIN ps : ps[i] = p}

\* Context.close up to its await of browserContext.close(): the tabs are
\* dropped and the browser context closes; every page emits 'close', and each
\* Tab's _onClose starts _clearCollectedArtifacts (connectRedis on the ready
\* client, lrange issued), a promise that nothing awaits
Context_close ==
  /\ context = "open"
  /\ \A p \in env.pages : clr[p].pc = "idle"
  /\ ~connectAttempted(redisClient.status) /\ carries(redisClient.status)
  /\ context' = "closing"
  /\ \E ps \in CloseOrders(env.pages) :
       queue' = queue \o [i \in DOMAIN ps |-> ClearT(ps[i])]
  /\ clr' = [p \in PageIds |->
               IF p \in env.pages
                 THEN [pc |-> "lrange", kind |-> "close", keys |-> <<>>,
                       errs |-> {}, outcome |-> "none", again |-> untouched[p]]
                 ELSE clr[p]]
  /\ clears' = clears + Cardinality(env.pages)
  /\ overlap' = [t \in CaptureTasks |->
                   overlap[t] \/ (PageOf(t[2]) \in env.pages /\ InFlight(t))]
  /\ UNCHANGED <<env, memoryTab, configFile, redisConfig, redisClient, tool, redis, pc, key,
                 data, tracked, pendingRequests, qry, observed, sinceClear,
                 untouched, failures, queries>>

\* Context.close after browserContext.close() and browser.close(): await
\* disconnectRedis(), which sends quit on a client that is ready or connected
disconnectRedis ==
  /\ context = "closing"
  /\ redisClient.status = "ready" \/ redisClient.status = "connect"
  /\ context' = "quit"
  /\ queue' = Issue(queue, QuitT)
  /\ redisClient' = [redisClient EXCEPT !.op = "disconnectRedis",
                                        !.seen = redisClient.status,
                                        !.attempt = FALSE,
                                        !.returned = "none",
                                        !.command = "quit"]
  /\ UNCHANGED <<env, memoryTab, configFile, redisConfig, tool, overlap, redis, pc, key, data,
                 tracked, pendingRequests, clr, qry, observed, sinceClear,
                 untouched, failures, clears, queries>>

\* The store executes quit: it answers and closes the connection.  The client
\* ends (no retry after a quit) and rejects the commands still waiting for a
\* reply; each rejected handler runs its catch block: a capture handler logs,
\* _clearCollectedArtifacts logs, empties _pendingRequests and lets the page
\* close
redisClient_quit ==
  /\ AtHead(QuitT)
  /\ LET rejected == Range(Tail(queue))
         clearsRejected == {p \in PageIds : ClearT(p) \in rejected}
     IN  /\ pc' = [t \in CaptureTasks |-> IF t \in rejected THEN "caught" ELSE pc[t]]
         /\ pendingRequests' =
              [p \in PageIds |->
                 IF p \in clearsRejected THEN EmptyMap
                 ELSE [r \in {x \in DOMAIN pendingRequests[p] :
                                ~(RespT(x) \in rejected /\ tracked[x])} |->
                         pendingRequests[p][r]]]
         /\ clr' = [p \in PageIds |->
                      IF p \in clearsRejected
                        THEN [pc |-> AfterClear(clr[p].kind), kind |-> clr[p].kind,
                              keys |-> <<>>, errs |-> {}, outcome |-> "caught",
                              again |-> clr[p].again]
                        ELSE clr[p]]
         /\ sinceClear' = [p \in PageIds |-> sinceClear[p] /\ p \notin clearsRejected]
         /\ untouched' = [p \in PageIds |-> untouched[p] /\ p \notin clearsRejected]
  /\ queue' = <<>>
  /\ redisClient' = [redisClient EXCEPT !.status = "end", !.returned = "ok"]
  /\ context' = "closed"
  /\ UNCHANGED <<env, memoryTab, configFile, redisConfig, tool, overlap, redis, key, data,
                 tracked, qry, observed, failures, clears, queries>>

-----------------------------------------------------------------------------
(* The Tab variant that keeps requests in memory (redisClient.ts 316-467) *)

MAX_REQUESTS_TO_KEEP == 400

\* The requests of the page, numbered as the page makes them; those with a
\* data: URL; those whose responses arrive in the run
MemoryRequests == 1..MaxMemoryRequests
DataRequests == {2}
Answered == {1, 2, 3, MAX_REQUESTS_TO_KEEP, MAX_REQUESTS_TO_KEEP + 1}

\* Map.prototype.has / keys / set: set on a key of the map replaces its value
\* in place, set on a new key adds the entry at the end
mapHas(m, k) == \E i \in DOMAIN m : m[i].request = k
mapKeys(m) == [i \in DOMAIN m |-> m[i].request]
mapSet(m, k, v) ==
  IF mapHas(m, k)
    THEN [i \in DOMAIN m |-> IF m[i].request = k THEN [request |-> k, response |-> v]
                             ELSE m[i]]
    ELSE Append(m, [request |-> k, response |-> v])

RECURSIVE manageRequestsLimit(_)

manageRequestsLimit_newest(m) ==
  IF Len(m) > MAX_REQUESTS_TO_KEEP THEN SubSeq(m, 1, MAX_REQUESTS_TO_KEEP) ELSE m

\* Tab._manageRequestsLimit: while the map is over the limit, delete its first key
manageRequestsLimit(m) ==
  IF Len(m) > MAX_REQUESTS_TO_KEEP THEN manageRequestsLimit(Tail(m)) ELSE m

\* page.on('request', ...) of the in-memory Tab
MemoryRequestEvent ==
  /\ memoryTab.seen < MaxMemoryRequests
  /\ LET request == memoryTab.seen + 1
     IN  memoryTab' =
           [memoryTab EXCEPT
              !.requests = manageRequestsLimit(mapSet(@, request, NULL)),
              !.seen = request,
              !.last = [kind |-> "request", request |-> request]]
  /\ UNCHANGED <<env, redis, queue, pc, key, data, tracked, pendingRequests, clr,
                 qry, observed, sinceClear, untouched, overlap, failures, clears,
                 queries, tool, configFile, redisConfig, redisClient, context>>

\* page.on('response', ...) of the in-memory Tab, for the response to `request`
MemoryResponseEvent(request) ==
  /\ request \in Answered \ memoryTab.responded
  /\ request <= memoryTab.seen
  /\ LET m == memoryTab.requests
         isData == request \in DataRequests
         response == Some(request)
     IN  memoryTab' =
           [memoryTab EXCEPT
              !.requests =
                 IF mapHas(m, request) \/ ~isData
                   THEN IF ~mapHas(m, request) /\ ~isData
                          THEN manageRequestsLimit(mapSet(m, request, response))
                          ELSE IF mapHas(m, request)
                                 THEN mapSet(m, request, response)
                                 ELSE m
                   ELSE m,
              !.responded = @ \cup {request},
              !.last = [kind |-> "response", request |-> request]]
  /\ UNCHANGED <<env, redis, queue, pc, key, data, tracked, pendingRequests, clr,
                 qry, observed, sinceClear, untouched, overlap, failures, clears,
                 queries, tool, configFile, redisConfig, redisClient, context>>

\* Half of the expiry time passes at the store, while no command is on its
\* way (a command's round trip is short against the expiry time)
Tick ==
  /\ queue = <<>>
  /\ \E k \in DOMAIN redis : redis[k].ex # NULL
  /\ redis' = elapse(redis, defaultTTLSeconds \div 2)
  /\ UNCHANGED <<env, memoryTab, context, configFile, redisConfig, redisClient, overlap, queue, pc, key, data, tracked, pendingRequests, clr,
                 qry, tool, observed, sinceClear, untouched, failures, clears,
                 queries>>

\* handle from the filter loop on, for a given value of tab.requests()
handleEntries(requestsMap, resource_types, target_domain) ==
  /\ tool.pc = "idle"
  /\ tool' = [pc |-> "done", page |-> "pA", types |-> resource_types,
              target |-> target_domain, status |-> "ok",
              result |-> filterRecords(requestsMap, resource_types, target_domain),
              requestOnly |-> {}, adHoc |-> {}]
  /\ UNCHANGED <<env, memoryTab, context, configFile, redisConfig, redisClient, overlap, redis, queue, pc, key, data, tracked, pendingRequests,
                 clr, qry, observed, sinceClear, untouched, failures, clears, queries>>

\* Entries a request map can hold: up to MaxEntries of the requests, in any order
RECURSIVE EntriesUpTo(_)
EntriesUpTo(n) ==
  IF n = 0 THEN {<<>>}
  ELSE EntriesUpTo(n - 1) \cup
       {Append(m, requestDataOf(r, r)) :
          m \in {x \in EntriesUpTo(n - 1) : Len(x) = n - 1}, r \in {"r1", "r2", "r3"}}

-----------------------------------------------------------------------------

(* Operations by component *)

CaptureRequest ==
  \/ \E r \in Requests : RequestEvent(r)
  \/ \E t \in CaptureTasks : storeRequest_set(t)
  \/ \E t \in CaptureTasks : storeRequest_rpush(t)
  \/ \E t \in CaptureTasks : storeRequest_expire(t)

CaptureResponse ==
  \/ \E r \in Requests : ResponseEvent(r)
  \/ \E r \in Requests : storeResponse_get(r)
  \/ \E r \in Requests : storeResponse_body(r)
  \/ \E r \in Requests : storeResponse_set(r)

Capture == CaptureRequest \/ CaptureResponse

Clear ==
  \/ \E p \in PageIds, kind \in {"navigate", "close"} : ClearCall(p, kind)
  \/ \E p \in PageIds : clearRequestsForPage_lrange(p)
  \/ \E p \in PageIds : clearRequestsForPage_pipeline(p)
  \/ \E p \in PageIds : clearRequestsForPage_del(p)
  \/ \E p \in PageIds : PageGoto(p)

Tool ==
  \E p \in PageIds, types \in env.types, target \in env.targets :
    handle(p, types, target)

Filter ==
  \E requestsMap \in EntriesUpTo(MaxEntries), types \in env.types,
     target \in env.targets :
    handleEntries(requestsMap, types, target)

Connection ==
  \/ moduleLoad
  \/ clientStatus
  \/ \E op \in DOMAIN FirstCommand : connectRedis_then(op)

\* The events of an in-memory Tab
Memory ==
  \/ MemoryRequestEvent
  \/ \E request \in MemoryRequests : MemoryResponseEvent(request)

\* Startup: the module loads, the client connects by itself, and the first
\* tool call creates the browser context
Startup ==
  \/ moduleLoad
  \/ clientStatus
  \/ Context_innerCreateBrowserContext

\* Context.close with the clears its page 'close' events start
Closing ==
  \/ Context_close
  \/ \E p \in PageIds : clearRequestsForPage_lrange(p)
  \/ \E p \in PageIds : clearRequestsForPage_pipeline(p)
  \/ \E p \in PageIds : clearRequestsForPage_del(p)
  \/ disconnectRedis
  \/ redisClient_quit

Content ==
  \E r \in Requests, resp \in Responses : storeResponse_content(r, resp)

Query ==
  \/ \E p \in PageIds, types \in env.types, target \in env.targets :
       handle(p, types, target)
  \/ \E p \in PageIds : getAllRequestsForPage_call(p)
  \/ getAllRequestsForPage_lrange
  \/ getAllRequestsForPage_pipeline

-----------------------------------------------------------------------------
(* Specifications.  Each fixes what the environment does in a run. *)

\* One page whose requests are captured while the store may fail
EnvCapture == [live |-> {"r1", "r2", "d1"}, pages |-> {"pA"}, stored |-> <<>>,
               maxFailures |-> MaxFailures, maxClears |-> 0, maxQueries |-> 0,
               types |-> {}, targets |-> {}]

\* Capture and query, the store may fail
EnvQuery == [live |-> {"r1", "r2"}, pages |-> {"pA"}, stored |-> <<>>,
             maxFailures |-> MaxFailures, maxClears |-> 0,
             maxQueries |-> MaxQueries,
             types |-> {{"xhr"}, {"xhr", "script"}}, targets |-> {NULL}]

\* Capture and navigation/close next to another session, the store reachable
EnvClear == [live |-> {"r1", "r2"}, pages |-> {"pA"}, stored |-> <<"r3">>,
             maxFailures |-> 0, maxClears |-> MaxClears, maxQueries |-> 0,
             types |-> {}, targets |-> {}]

\* Capture and navigation/close, the store may fail
EnvFaulty == [live |-> {"r1", "r2"}, pages |-> {"pA"}, stored |-> <<>>,
              maxFailures |-> MaxFailures, maxClears |-> MaxFaultyClears,
              maxQueries |-> 0, types |-> {}, targets |-> {}]

\* Everything at once, on one request
EnvAll == [live |-> {"r1", "d1"}, pages |-> {"pA"}, stored |-> <<>>,
           maxFailures |-> MaxFailures, maxClears |-> MaxFaultyClears,
           maxQueries |-> MaxQueries,
           types |-> {{"xhr"}}, targets |-> {NULL, Some("example.com")}]

Init == InitWith(EnvAll)
Next == Capture \/ Clear \/ Query
Spec == Init /\ [][Next]_vars

InitCapture == InitWith(EnvCapture)
SpecCapture == InitCapture /\ [][Capture]_vars

InitQuery == InitWith(EnvQuery)
SpecQuery == InitQuery /\ [][Capture \/ Query]_vars

InitClear == InitWith(EnvClear)
SpecClear == InitClear /\ [][Capture \/ Clear]_vars

InitFaulty == InitWith(EnvFaulty)
SpecFaulty == InitFaulty /\ [][Capture \/ Clear]_vars

\* One request and its response, navigation/close, the store may fail
EnvSolo == [live |-> {"r1"}, pages |-> {"pA"}, stored |-> <<>>,
            maxFailures |-> MaxFailures, maxClears |-> MaxFaultyClears,
            maxQueries |-> 0, types |-> {}, targets |-> {}]

InitSolo == InitWith(EnvSolo)
SpecSolo == InitSolo /\ [][Capture \/ Clear]_vars

\* The tool is called while one page captures; the store does not fail
EnvTool == [live |-> {"r1", "r2"}, pages |-> {"pA"}, stored |-> <<>>,
            maxFailures |-> 0, maxClears |-> 0, maxQueries |-> 0,
            types |-> {{"xhr"}, {"xhr", "script"}},
            targets |-> {NULL, Some("example.com")}]

InitTool == InitWith(EnvTool)
SpecTool == InitTool /\ [][Capture \/ Tool]_vars

\* The tool's filter applied to request maps, resource types and targets
EnvFilter == [live |-> {}, pages |-> {"pA"}, stored |-> <<>>,
              maxFailures |-> 0, maxClears |-> 0, maxQueries |-> 0,
              types |-> (SUBSET {"xhr", "script", "document"}) \ {{}},
              targets |-> {NULL, Some("example.com"), Some("cdn.example.com"),
                           Some("not a url###"), Some(""), Some(" ")}]

InitFilter == InitWith(EnvFilter)
SpecFilter == InitFilter /\ [][Filter]_vars

\* One page captures while time passes at a store that does not fail
EnvExpiry == [live |-> {"r1", "r2"}, pages |-> {"pA"}, stored |-> <<>>,
              maxFailures |-> 0, maxClears |-> 0, maxQueries |-> 0,
              types |-> {}, targets |-> {}]

InitExpiry == InitWith(EnvExpiry)
SpecExpiry == InitExpiry /\ [][Capture \/ Tick]_vars

\* Two pages, each with its own Tab: pB has captured r3 when pA starts to
\* capture; either page navigates or closes, either session is read
EnvPair == [live |-> {"r1"}, pages |-> {"pA", "pB"}, stored |-> <<"r3">>,
            maxFailures |-> 0, maxClears |-> MaxFaultyClears,
            maxQueries |-> MaxQueries, types |-> {}, targets |-> {}]

InitPair == InitWith(EnvPair)

GetAll ==
  \/ \E p \in PageIds : getAllRequestsForPage_call(p)
  \/ getAllRequestsForPage_lrange
  \/ getAllRequestsForPage_pipeline

SpecPair == InitPair /\ [][Capture \/ Clear \/ GetAll]_vars

\* storeResponse's choice of the stored body, for every response
EnvBody == [live |-> {"r1", "r2"}, pages |-> {"pA"}, stored |-> <<>>,
            maxFailures |-> 0, maxClears |-> 0, maxQueries |-> 0,
            types |-> {}, targets |-> {}]

InitBody == InitWith(EnvBody)
SpecBody == InitBody /\ [][Content]_vars

\* A session is read while its page observes requests and time passes
EnvRead == [live |-> {"r1", "r2"}, pages |-> {"pA"}, stored |-> <<>>,
            maxFailures |-> 0, maxClears |-> 0, maxQueries |-> MaxQueries,
            types |-> {}, targets |-> {}]

InitRead == InitWith(EnvRead)
SpecRead == InitRead /\ [][CaptureRequest \/ Tick \/ GetAll]_vars

\* The module loads its configuration from any file and the operations are
\* called whatever the state of the connection is
EnvConnect == [live |-> {}, pages |-> {"pA"}, stored |-> <<>>,
               maxFailures |-> 0, maxClears |-> 0, maxQueries |-> 0,
               types |-> {}, targets |-> {}]

InitConnect ==
  /\ InitTab(EnvConnect)
  /\ context = "open"
  /\ configFile \in ConfigFiles
  /\ redisConfig = NULL
  /\ redisClient = [status |-> "none", op |-> "none", seen |-> "none",
                    attempt |-> FALSE, returned |-> "none", command |-> "none"]

SpecConnect == InitConnect /\ [][Connection]_vars

\* The server starts: no browser context yet, any configuration file
InitStartup ==
  /\ InitTab(EnvConnect)
  /\ context = "none"
  /\ configFile \in ConfigFiles
  /\ redisConfig = NULL
  /\ redisClient = [status |-> "none", op |-> "none", seen |-> "none",
                    attempt |-> FALSE, returned |-> "none", command |-> "none"]

SpecStartup == InitStartup /\ [][Startup]_vars

\* One in-memory Tab whose page makes requests, no store
InitMemory == InitWith(EnvConnect)
SpecMemory == InitMemory /\ [][Memory]_vars

\* Two tabs capture, then the Context is closed; the store does not fail
EnvClose == [live |-> {"r1", "r3"}, pages |-> {"pA", "pB"}, stored |-> <<>>,
             maxFailures |-> 0, maxClears |-> 0, maxQueries |-> 0,
             types |-> {}, targets |-> {}]

InitClose == InitWith(EnvClose)
SpecClose == InitClose /\ [][Capture \/ Closing]_vars

\* Requests whose responses are still out when the page navigates or closes,
\* the store may fail
InitPending == InitWith(EnvFaulty)
SpecPending == InitPending /\ [][CaptureRequest \/ Clear]_vars

-----------------------------------------------------------------------------
(* Vocabulary of the properties *)

Completed == {"done", "caught", "warned"}

AllHandlersCompleted ==
  /\ queue = <<>>
  /\ \A t \in CaptureTasks : ~InFlight(t)
  /\ \A p \in PageIds : ~ClearInFlight(p)

\* A notification of the non-data-URI request r has been handled
Captured(r) ==
  /\ ~startsWithData(RequestInfo(r).url)
  /\ pc[ReqT(r)] # "idle" \/ pc[RespT(r)] # "idle"

\* The keys under which the handlers for r write records
requestHandlerKey(r) == requestKeyOf(PageOf(r), uuidv4(ReqT(r)))
responseHandlerKey(r) == requestKeyOf(PageOf(r), uuidv4(RespT(r)))
keysOf(r) == {requestHandlerKey(r), responseHandlerKey(r)}

indexOf(p) == LRANGE(redis, listKeyOf(p))

recordAt(k) == JSONparse(Unwrap(GET(redis, k)))

\* The request part a record of r must carry (spec 3: parsed JSON, raw text or absent body)
observedRequest(r) ==
  [url |-> RequestInfo(r).url,
   method |-> RequestInfo(r).method,
   headers |-> RequestInfo(r).headers,
   body |-> CASE r = "r1" -> <<"json", "{\"a\":1}">>
              [] r = "r3" -> <<"str", "a=1">>
              [] OTHER -> NULL,
   resourceType |-> RequestInfo(r).resourceType]

matchesResponse(rec, r) ==
  /\ rec.response # NULL
  /\ Unwrap(rec.response).status = ResponseInfo(r).status
  /\ Unwrap(rec.response).statusText = ResponseInfo(r).statusText
  /\ Unwrap(rec.response).headers = ResponseInfo(r).headers

-----------------------------------------------------------------------------
(* Capture *)

\* C1: with the store reachable and no clear, once all capture handlers have
\* completed the store holds exactly one record, and the session index exactly
\* one key, for each captured non-data-URI request
C1_OneRecordPerRequest ==
  (AllHandlersCompleted /\ failures = 0 /\ clears = 0) =>
    \A r \in Requests :
      Captured(r) =>
        /\ Cardinality(keysOf(r) \cap DOMAIN redis) = 1
        /\ Cardinality({i \in DOMAIN indexOf(PageOf(r)) :
                          indexOf(PageOf(r))[i] \in keysOf(r)}) = 1

\* C2: for a request observed before its response, once both handlers have
\* completed (store reachable, no clear) the record the request handler created
\* has a non-null response with the observed status, statusText and headers
C2_ResponseAttached ==
  \A r \in Requests :
    (pc[ReqT(r)] = "done" /\ pc[RespT(r)] \in Completed /\ failures = 0 /\ clears = 0) =>
      /\ GET(redis, key[ReqT(r)]) # NULL
      /\ matchesResponse(recordAt(key[ReqT(r)]), r)

\* C3: a tool call made after the request handler for R completed and before
\* R's response is observed, with R's resource type and no hostname filter,
\* returns a record carrying R's request fields and a null response
C3_RequestOnlyRecord ==
  tool.pc = "done" =>
    \A r \in tool.requestOnly :
      (RequestInfo(r).resourceType \in tool.types /\ tool.target = NULL) =>
        /\ tool.status = "ok"
        /\ \E i \in DOMAIN tool.result :
             /\ tool.result[i].request = observedRequest(r)
             /\ tool.result[i].response = NULL

\* C4: a response for a request without pending-map entry makes the handler
\* write a record with request and response populated and append its key to
\* the index, and a later tool call returns one complete record for the request
C4_AdHocRecord ==
  /\ \A r \in Requests :
       (pc[RespT(r)] \in Completed /\ ~tracked[r] /\ failures = 0 /\ clears = 0) =>
         /\ GET(redis, key[RespT(r)]) # NULL
         /\ recordAt(key[RespT(r)]).request = observedRequest(r)
         /\ matchesResponse(recordAt(key[RespT(r)]), r)
         /\ key[RespT(r)] \in Range(indexOf(PageOf(r)))
  /\ tool.pc = "done" =>
       \A r \in tool.adHoc :
         (RequestInfo(r).resourceType \in tool.types /\ tool.target = NULL) =>
           /\ tool.status = "ok"
           /\ Cardinality({i \in DOMAIN tool.result :
                             /\ tool.result[i].request = observedRequest(r)
                             /\ matchesResponse(tool.result[i], r)}) = 1

-----------------------------------------------------------------------------
(* Session clear *)

\* C5: after a close or navigate has finished its clear (store reachable) and
\* until the next capture notification on the page, the session's index is
\* absent and the pending map is empty
C5_ClearedSession ==
  \A p \in PageIds :
    sinceClear[p] =>
      /\ ~Exists(redis, listKeyOf(p))
      /\ DOMAIN pendingRequests[p] = {}

\* C6: once a clear and the request handlers running beside it have completed,
\* every record key of the session in the store is referenced by its index
C6_NoOrphanRecord ==
  AllHandlersCompleted =>
    \A r \in Requests :
      \A k \in keysOf(r) \cap DOMAIN redis : k \in Range(indexOf(PageOf(r)))

\* C7: a clear called right after a clear of the same session, with no capture
\* in between, leaves the whole store as it was and ends without error
C7_SecondClearNoOp ==
  [][\A p \in PageIds :
       (clr[p].again /\ untouched[p] /\ clr'[p] # clr[p]) =>
         /\ redis' = redis
         /\ clr'[p].outcome # "caught"]_vars

C7_SecondClearDone ==
  /\ clr["pA"].again /\ untouched["pA"]
  /\ clr["pA"].pc \in {"goto", "closed"} /\ clr["pA"].outcome = "ok"
  /\ pc[ReqT("r1")] = "done" /\ pc[ReqT("r2")] = "done"
  /\ Exists(redis, listKeyOf("pB"))

\* C8: when the delete of some referenced records fails, every other
\* referenced record is deleted all the same, the delete of the index is
\* issued next, and it removes the index
C8_BestEffortClear ==
  [][\A p \in PageIds :
       /\ (clr[p].pc = "pipeline" /\ clr'[p].pc # "pipeline") =>
            /\ clr'[p].pc = "del"
            /\ ClearT(p) \in Range(queue')
            /\ \A k \in Range(clr[p].keys) \ clr'[p].errs : ~Exists(redis', k)
       /\ (clr[p].pc = "del" /\ clr'[p].outcome = "ok") =>
            ~Exists(redis', listKeyOf(p))]_vars

C8_PartialFailureCleared ==
  \E p \in PageIds :
    /\ clr[p].pc \in {"goto", "closed"} /\ clr[p].outcome = "ok"
    /\ failures = 1
    /\ ~Exists(redis, listKeyOf(p))
    /\ \E r1 \in RequestsOf(p), r2 \in RequestsOf(p) :
         /\ pc[ReqT(r1)] = "done" /\ Exists(redis, key[ReqT(r1)])
         /\ pc[ReqT(r2)] = "done" /\ ~Exists(redis, key[ReqT(r2)])
         /\ ~overlap[ReqT(r1)] /\ ~overlap[ReqT(r2)]

-----------------------------------------------------------------------------
(* Reading back *)

\* C10: when a get of the bulk fetch fails, the read of the session's records
\* reports a failure instead of returning a result
C10_FetchFailureReported ==
  (qry.pc = "done" /\ qry.errs # {}) => qry.status = "error"

-----------------------------------------------------------------------------
(* Failures *)

\* C11: a failed store command inside a capture handler or a clear ends in
\* that handler's catch block: the handler completes, a clear whose batched
\* deletes fail goes on, and a navigate whose clear failed is at page.goto
C11_FailuresContained ==
  [][failures' > failures =>
       \/ \E t \in CaptureTasks : pc[t] # "caught" /\ pc'[t] = "caught"
       \/ \E p \in PageIds :
            /\ clr'[p] # clr[p]
            /\ \/ clr[p].pc = "pipeline" /\ clr'[p].pc = "del"
               \/ /\ clr'[p].outcome = "caught"
                  /\ clr'[p].pc = IF clr'[p].kind = "navigate" THEN "goto"
                                   ELSE "closed"]_vars

C11_ClearFailedGotoNext ==
  /\ failures = 1
  /\ clr["pA"].outcome = "caught" /\ clr["pA"].pc = "goto"
  /\ pc[ReqT("r1")] = "done"

-----------------------------------------------------------------------------
(* Query *)

\* The records of session p the index refers to, in index order
storedRecordsOf(p) ==
  LET present == SelectSeq(indexOf(p), LAMBDA k : Exists(redis, k))
  IN  [i \in 1..Len(present) |-> recordAt(present[i])]

\* The hostname a target stands for: that of the URL it parses as, or itself
\* when it has the form of a bare hostname; NULL when it is neither
normalizedTarget(s) ==
  IF URLhostname(s) # NULL /\ URLhostname(s) # Some("") THEN URLhostname(s)
  ELSE IF hostnameLike(s) THEN Some(s)
  ELSE NULL

\* C12: a call of the tool returns exactly the stored records of the session,
\* in index order, whose resource type is in the set given and, when a target
\* is given, whose URL's hostname equals the normalized target
C12_QueryIsFilteredStore ==
  [][(tool.pc = "idle" /\ tool'.pc = "done") =>
       /\ tool'.status = "ok"
       /\ tool'.result =
            SelectSeq(storedRecordsOf(tool'.page),
                      LAMBDA rec :
                        /\ rec.request.resourceType \in tool'.types
                        /\ tool'.target # NULL =>
                             /\ normalizedTarget(Unwrap(tool'.target)) # NULL
                             /\ URLhostname(rec.request.url) =
                                  normalizedTarget(Unwrap(tool'.target)))]_vars

\* C13: with a target that is neither a URL nor of the form of a bare hostname
\* the tool's filter returns the empty sequence, whatever the entries are
C13_InvalidTargetEmpty ==
  (tool.pc = "done" /\ tool.target # NULL
     /\ normalizedTarget(Unwrap(tool.target)) = NULL) =>
    (tool.status = "ok" /\ tool.result = <<>>)

\* C14: the tool's result is that of reading the session index and its records
\* from the store at the time of the call and filtering them
C14_ServedFromStore ==
  [][(tool.pc = "idle" /\ tool'.pc = "done") =>
       /\ tool'.status = "ok"
       /\ tool'.result =
            filterRecords(allRequestsOf(redis,
                                        LRANGE(redis, listKeyOf(tool'.page)), {}),
                          tool'.types, tool'.target)]_vars

-----------------------------------------------------------------------------
(* Expiry *)

\* C15: the session index and the records it refers to expire together: once
\* all handlers have completed, a live index refers to live records only, and
\* no record of a session outlives the session's index
C15_SharedExpiry ==
  AllHandlersCompleted =>
    \A p \in PageIds :
      IF Exists(redis, listKeyOf(p))
        THEN \A k \in Range(indexOf(p)) : Exists(redis, k)
        ELSE \A r \in RequestsOf(p) : \A k \in keysOf(r) : ~Exists(redis, k)

\* C16: once all handlers have completed, every key in the store has the
\* configured expiry, also when a store command of storeRequest has failed
C16_EveryKeyExpires ==
  AllHandlersCompleted =>
    \A k \in DOMAIN redis : redis[k].ex = Some(defaultTTLSeconds)

-----------------------------------------------------------------------------
(* Record lifecycle *)

\* C17: a record key that is not in the store comes into it only by the set
\* of the storeRequest that creates it; storeResponse's write never brings
\* back a key that a clear or the expiry has removed
C17_NoResurrection ==
  [][\A r \in Requests : \A k \in keysOf(r) :
       (~Exists(redis, k) /\ Exists(redis', k)) =>
         \E t \in {ReqT(r), RespT(r)} : pc[t] = "set" /\ key[t] = k]_vars

\* C18: a record is written by the storeRequest that creates it, with response
\* null, and at most once more, by the write that attaches the response to its
\* request: a record in the store changes only from response null to the
\* response of its request, with id and request as they were
C18_WrittenAtMostTwice ==
  [][\A r \in Requests : \A k \in keysOf(r) :
       /\ \A t \in {ReqT(r), RespT(r)} :
            (pc[t] = "set" /\ pc'[t] = "rpush" /\ key[t] = k) =>
              recordAt(k)'.response = NULL
       /\ (Exists(redis, k) /\ Exists(redis', k) /\ recordAt(k)' # recordAt(k)) =>
            /\ recordAt(k).response = NULL
            /\ matchesResponse(recordAt(k)', r)
            /\ recordAt(k)'.id = recordAt(k).id
            /\ recordAt(k)'.request = recordAt(k).request
       /\ (~Exists(redis, k) /\ Exists(redis', k)) =>
            \/ recordAt(k)'.response = NULL
            \/ pc[RespT(r)] = "set2" /\ matchesResponse(recordAt(k)', r)]_vars

C18_ResponseAttached ==
  /\ tracked["r1"] /\ pc[RespT("r1")] = "done"
  /\ Exists(redis, requestHandlerKey("r1"))
  /\ recordAt(requestHandlerKey("r1")).response # NULL
  /\ clears = 1

\* C19: when storeResponse, called for a request of the pending map, finds no
\* record under the request's key, it returns with a warning: the step leaves
\* the store as it is and the handler issues no further command, and has thrown
\* nothing
C19_MissingRecordNoWrite ==
  [][\A r \in Requests :
       /\ (tracked[r] /\ pc[RespT(r)] = "get" /\ pc'[RespT(r)] # "get"
             /\ failures' = failures /\ ~Exists(redis, key[RespT(r)])) =>
            /\ pc'[RespT(r)] = "warned"
            /\ redis' = redis
            /\ RespT(r) \notin Range(queue')
       /\ pc[RespT(r)] = "warned" =>
            /\ pc'[RespT(r)] = "warned"
            /\ RespT(r) \notin Range(queue')]_vars

C19_WarnedAfterClear ==
  /\ tracked["r1"] /\ pc[RespT("r1")] = "warned"
  /\ ~Exists(redis, requestHandlerKey("r1"))
  /\ pendingGet(pendingRequests["pA"], "r1") = NULL

\* C20: the notifications of a data-URI request change nothing: no step of its
\* handlers touches the store, the connection or the pending map, and no key
\* is ever made for it
C20_DataUriNoEffect ==
  [][\A r \in {"d1"} :
       (pc'[ReqT(r)] # pc[ReqT(r)] \/ pc'[RespT(r)] # pc[RespT(r)]) =>
         /\ redis' = redis
         /\ queue' = queue
         /\ pendingRequests' = pendingRequests
         /\ key'[ReqT(r)] = "" /\ key'[RespT(r)] = ""]_vars

C20_DataUriIgnored ==
  /\ pc[ReqT("d1")] = "ignored" /\ pc[RespT("d1")] = "ignored"
  /\ pc[ReqT("r1")] = "done"
  /\ Len(indexOf("pA")) = 1

-----------------------------------------------------------------------------
(* Sessions *)

\* The keys of session p and what the store holds under them
sessionKeys(p) == {listKeyOf(p)} \cup UNION {keysOf(r) : r \in RequestsOf(p)}
sessionStore(p) == [k \in sessionKeys(p) \cap DOMAIN redis |-> redis[k]]

\* No handler of page p takes the step
quiet(p) ==
  /\ clr'[p] = clr[p]
  /\ \A r \in RequestsOf(p) :
       pc'[ReqT(r)] = pc[ReqT(r)] /\ pc'[RespT(r)] = pc[RespT(r)]

\* C21: the steps of another page's capture and clear leave a session's index,
\* records and pending map as they are, and getAllRequestsForPage returns
\* records of the session asked for only
C21_SessionsIsolated ==
  [][/\ \A p \in PageIds :
          quiet(p) => /\ sessionStore(p)' = sessionStore(p)
                      /\ pendingRequests'[p] = pendingRequests[p]
     /\ qry'.pc = "done" =>
          \A i \in 1..Len(qry'.result) :
            \E r \in RequestsOf(qry'.page) :
              qry'.result[i].id \in {uuidv4(ReqT(r)), uuidv4(RespT(r))}]_vars

C21_OtherSessionKept ==
  /\ pc[ReqT("r1")] = "done" /\ ~Exists(redis, requestHandlerKey("r1"))
  /\ clr["pA"].pc \in {"goto", "closed"}
  /\ indexOf("pB") = <<requestHandlerKey("r3")>>
  /\ Exists(redis, requestHandlerKey("r3"))
  /\ qry.pc = "done" /\ qry.page = "pB" /\ Len(qry.result) = 1

-----------------------------------------------------------------------------
(* Response bodies *)

\* The response attached to the record a response handler holds
attached(r) == Unwrap(Unwrap(data[r]).response)

\* C22: a response with status 204 or 205 is stored with body null, whatever
\* its content type and body are
C22_NoContentNullBody ==
  \A r \in Requests :
    (data[r] # NULL /\ Unwrap(data[r]).response # NULL
       /\ attached(r).status \in {204, 205}) =>
      attached(r).body = NULL

C22_NoContentWithJsonType ==
  /\ data["r1"] # NULL /\ Unwrap(data["r1"]).response # NULL
  /\ attached("r1").status = 204
  /\ attached("r1").headers = ("content-type" :> "application/json")

\* The content-type classes of the body policy
jsonType(ct) == ct = Some("application/json")
textType(ct) ==
  ct \in {Some("text/html"), Some("text/plain"), Some("application/javascript"),
          Some("application/xml")}

\* C23: for a response whose status is neither 204 nor 205 the stored body has
\* the form its content type asks for, whatever the status: decoded JSON (or
\* the text, or a read-error string) for JSON types, the text (or a read-error
\* string) for text types, and null or a descriptor string otherwise; an empty
\* text is stored as null unless the content type starts with text/
C23_BodyByContentType ==
  \A r \in Requests :
    (data[r] # NULL /\ Unwrap(data[r]).response # NULL
       /\ attached(r).status \notin {204, 205}) =>
      LET ct == contentTypeOf(attached(r).headers)
          body == attached(r).body
      IN  /\ jsonType(ct) =>
               body = NULL \/ body[1] \in {"json", "str", "error-json-text"}
          /\ textType(ct) =>
               \/ body = NULL /\ ct \notin {Some("text/html"), Some("text/plain")}
               \/ body # NULL /\ body[1] \in {"str", "error-text"}
          /\ (~jsonType(ct) /\ ~textType(ct)) =>
               body = NULL \/ body[1] \in {"binary", "error-binary"}
          /\ (body = <<"str", "">>) => ct \in {Some("text/html"), Some("text/plain")}

-----------------------------------------------------------------------------
(* Reading a session *)

\* C24: getAllRequestsForPage returns the empty sequence, and no error, when
\* the index is absent or empty, and otherwise the records of the index
\* entries that are in the store, in index order, skipping the missing ones
C24_AbsenceIsAValue ==
  [][/\ (qry.pc = "lrange" /\ qry'.pc # "lrange"
           /\ LRANGE(redis, listKeyOf(qry.page)) = <<>>) =>
          (qry'.pc = "done" /\ qry'.status = "ok" /\ qry'.result = <<>>)
     /\ (qry.pc = "pipeline" /\ qry'.pc # "pipeline") =>
          LET present == SelectSeq(qry.keys, LAMBDA k : Exists(redis, k))
          IN  /\ qry'.pc = "done" /\ qry'.status = "ok"
              /\ Len(qry'.result) = Len(present)
              /\ \A i \in 1..Len(present) : qry'.result[i] = recordAt(present[i])]_vars

C24_ExpiredRecordSkipped ==
  /\ qry.pc = "done" /\ qry.status = "ok"
  /\ qry.keys = <<requestHandlerKey("r1"), requestHandlerKey("r2")>>
  /\ Len(qry.result) = 1 /\ qry.result[1].id = uuidv4(ReqT("r2"))

\* C27: no step of getAllRequestsForPage changes the store: every index, every
\* record and every key's remaining expiry is after the step what it was before
C27_QueryReadOnly ==
  [][qry' # qry => redis' = redis]_vars

C27_ReadAfterTimePassed ==
  /\ qry.pc = "done" /\ qry.status = "ok" /\ Len(qry.result) = 2
  /\ Exists(redis, listKeyOf("pA"))
  /\ redis[listKeyOf("pA")].ex # Some(defaultTTLSeconds)

-----------------------------------------------------------------------------
(* Connection and configuration *)

\* C25: an operation's connectRedis starts a connect attempt exactly when the
\* status it reads is none of connecting, connect and ready, and when it has
\* returned without error the operation's first command is carried by the
\* connection
C25_ConnectedBeforeCommand ==
  redisClient.op # "none" =>
    /\ redisClient.attempt <=>
         redisClient.seen \notin {"connecting", "connect", "ready"}
    /\ redisClient.returned = "ok" =>
         redisClient.command = FirstCommand[redisClient.op]

\* C26: loading the configuration yields a configuration in every case: the
\* defaults when the file is missing or is not a JSON object, and otherwise the
\* file's fields with the default for each field the file omits
C26_ConfigAlwaysLoads ==
  redisConfig # NULL =>
    LET config == Unwrap(redisConfig)
    IN  /\ DOMAIN config = {"host", "port", "password", "defaultTTLSeconds"}
        /\ configFile.kind # "object" =>
             config = [host |-> "127.0.0.1", port |-> 6379, password |-> NULL,
                       defaultTTLSeconds |-> 604800]
        /\ configFile.kind = "object" =>
             /\ "host" \notin DOMAIN configFile.fields => config.host = "127.0.0.1"
             /\ "port" \notin DOMAIN configFile.fields => config.port = 6379
             /\ "password" \notin DOMAIN configFile.fields => config.password = NULL
             /\ "defaultTTLSeconds" \notin DOMAIN configFile.fields =>
                  config.defaultTTLSeconds = 604800
             /\ \A f \in DOMAIN configFile.fields : config[f] = configFile.fields[f]

C26_PartialFileLoaded ==
  /\ redisConfig # NULL
  /\ configFile.kind = "object" /\ DOMAIN configFile.fields = {"port"}
  /\ Unwrap(redisConfig).port = 6380 /\ Unwrap(redisConfig).host = "127.0.0.1"

-----------------------------------------------------------------------------
(* Pending map and index *)

\* C28: once the request handler and the response handler of a request have
\* both completed, the pending map of its page has no entry for the request
C28_PendingOnlyInFlight ==
  \A r \in Requests :
    (pc[ReqT(r)] \in Completed /\ pc[RespT(r)] \in Completed) =>
      pendingGet(pendingRequests[PageOf(r)], r) = NULL

\* C29: every step leaves the index of a session as it is or appends one key,
\* not yet in it, at its tail; only the del of a clear empties it
C29_IndexAppendOnly ==
  [][\A p \in PageIds :
       LET old == indexOf(p)
           new == indexOf(p)'
       IN  \/ new = old
           \/ /\ Len(new) = Len(old) + 1
              /\ SubSeq(new, 1, Len(old)) = old
              /\ new[Len(new)] \notin Range(old)
           \/ clr[p].pc = "del" /\ new = <<>>]_vars

C29_ThreeKeysAppended ==
  /\ Len(indexOf("pA")) = 3
  /\ indexOf("pA")[1] # indexOf("pA")[2] /\ indexOf("pA")[2] # indexOf("pA")[3]
  /\ pc[RespT("r1")] = "done"

\* C30: when a store command of the request handler's storeRequest has failed,
\* the store holds no record and no index entry of that call once all handlers
\* have completed, and at most one record of the request
C30_StoreRequestAllOrNothing ==
  AllHandlersCompleted =>
    \A r \in Requests :
      pc[ReqT(r)] = "caught" =>
        /\ ~Exists(redis, requestHandlerKey(r))
        /\ requestHandlerKey(r) \notin Range(indexOf(PageOf(r)))
        /\ Cardinality({k \in keysOf(r) : Exists(redis, k)}) <= 1

-----------------------------------------------------------------------------
(* Frame of storeResponse *)

\* The string keys of the store: the records
recordKeys(db) == {k \in DOMAIN db : db[k].type = "string"}

\* C31: the write of storeResponse touches the record under its key and nothing
\* else: every other key, the index included, keeps its value and its expiry,
\* the record written has the id and the request that storeRequest gave it and
\* that it had before the write if it was there, and in every state the id in
\* a record is the record-id part of the key the record is stored under
C31_StoreResponseFrame ==
  [][/\ \A r \in Requests :
          (pc[RespT(r)] = "set2" /\ pc'[RespT(r)] = "done") =>
            LET k == key[RespT(r)]
            IN  /\ DOMAIN redis' = DOMAIN redis \cup {k}
                /\ \A j \in DOMAIN redis \ {k} : redis'[j] = redis[j]
                /\ recordAt(k)'.request = observedRequest(r)
                /\ Exists(redis, k) =>
                     /\ recordAt(k)'.id = recordAt(k).id
                     /\ recordAt(k)'.request = recordAt(k).request
     /\ \A k \in recordKeys(redis') :
          \E p \in PageIds : k = requestKeyOf(p, recordAt(k)'.id)]_vars

C31_ResponseWrittenNextToOthers ==
  /\ pc[RespT("r1")] = "done" /\ pc[ReqT("r2")] = "done"
  /\ Exists(redis, requestHandlerKey("r1"))
  /\ matchesResponse(recordAt(requestHandlerKey("r1")), "r1")
  /\ recordAt(requestHandlerKey("r1")).request = observedRequest("r1")
  /\ recordAt(requestHandlerKey("r2")).response = NULL
  /\ Len(indexOf("pA")) = 2

-----------------------------------------------------------------------------
(* Shutdown *)

\* Nothing of page p's session is in the store
sessionCleared(p) == sessionKeys(p) \cap DOMAIN redis = {}

\* C32: on Context.close the quit of disconnectRedis takes effect only when no
\* tab's close-time clear is still running, so that with the connection shut
\* down every tab's session is gone from the store; and a client that has ended
\* stays ended
C32_ClearedBeforeDisconnect ==
  [][/\ (redisClient.status # "end" /\ redisClient'.status = "end") =>
          \A p \in env.pages : ~ClearInFlight(p)
     /\ context' = "closed" => \A p \in env.pages : sessionCleared(p)'
     /\ redisClient.status = "end" => redisClient'.status = "end"]_vars

-----------------------------------------------------------------------------
(* Startup *)

\* C33: whatever status the client has when the browser context is created
\* and however the connect attempt ends, initializeRedisConnection returns
\* without throwing and the creation of the browser context goes on
C33_StartupNotBlocked ==
  redisClient.op = "initializeRedisConnection" =>
    /\ redisClient.returned = "ok"
    /\ context = "creating"

C33_StartedWithoutStore ==
  /\ redisClient.op = "initializeRedisConnection"
  /\ redisClient.seen = "end" /\ redisClient.attempt
  /\ redisClient.status = "close"
  /\ context = "creating"

-----------------------------------------------------------------------------
(* The in-memory request map *)

\* C34: after every request or response event the in-memory map holds at most
\* MAX_REQUESTS_TO_KEEP entries; an event that inserts a request keeps the
\* entries in their order with the new one last, and drops the first one
\* exactly when the map was full; a response to a request of the map is
\* attached to its entry with the map's size and order as they were
C34_MemoryMapBounded ==
  [][LET old == mapKeys(memoryTab.requests)
         new == mapKeys(memoryTab'.requests)
         event == memoryTab'.last
         dropped == IF Len(old) = MAX_REQUESTS_TO_KEEP THEN 1 ELSE 0
     IN  memoryTab' # memoryTab =>
           /\ Len(new) <= MAX_REQUESTS_TO_KEEP
           /\ \/ new = old
              \/ /\ ~mapHas(memoryTab.requests, event.request)
                 /\ new = Append(SubSeq(old, dropped + 1, Len(old)), event.request)
           /\ (event.kind = "request" \/ event.request \notin DataRequests) =>
                mapHas(memoryTab'.requests, event.request)
           /\ (event.kind = "response" /\ mapHas(memoryTab.requests, event.request)) =>
                /\ new = old
                /\ \E i \in DOMAIN new :
                     memoryTab'.requests[i] =
                       [request |-> event.request, response |-> Some(event.request)]]_vars

C34_OldestDroppedResponseAttached ==
  /\ memoryTab.seen = MAX_REQUESTS_TO_KEEP + 2
  /\ Len(memoryTab.requests) = MAX_REQUESTS_TO_KEEP
  /\ memoryTab.requests[1].request = 3
  /\ memoryTab.last = [kind |-> "response", request |-> MAX_REQUESTS_TO_KEEP]
  /\ \E i \in DOMAIN memoryTab.requests :
       memoryTab.requests[i] = [request |-> MAX_REQUESTS_TO_KEEP,
                                response |-> Some(MAX_REQUESTS_TO_KEEP)]

====
